---- MODULE Spec2Model ----
(***************************************************************************)
(* Root finding in one dimension: root_search::binary (interval bisection), *)
(* root_search::fixed_point (fixed point iteration) and the functionals of  *)
(* functional.rs (x_minus, identity, frac, newton_raphson).                 *)
(*                                                                          *)
(* Numbers.  An f64 abscissa is modelled by an integer n standing for       *)
(* n * 2^-1074, a non-negative subnormal f64.  On that range f64 addition   *)
(* and subtraction are exact, and division by 2.0 rounds to the nearest     *)
(* representable value, ties to the even one; Midpoint below computes it    *)
(* that way.  Two distinct values differ by at least one unit, which is     *)
(* also the smallest positive trunc_err.                                    *)
(*                                                                          *)
(* A value of func that binary consults is only ever passed to signum, so   *)
(* it is modelled by its class: negative, -0.0, +0.0 or positive.           *)
(* num::signum on f64 is f64::signum: 1.0 for a positive number and for     *)
(* +0.0, -1.0 for a negative number and for -0.0.  It never yields 0.0.     *)
(*                                                                          *)
(* fixed_point only adds, subtracts and compares its values, so they are    *)
(* integers on the same scale.  A quotient computed by a functional is kept *)
(* as an exact fraction; a division by 0.0 yields inf, -inf or NaN.         *)
(***************************************************************************)
EXTENDS Integers, Sequences, FiniteSets, TLC

\* Abscissae of binary are 0..MaxX.
MaxX == 4
\* trunc_err ranges over 0..MaxTruncErr (0 is the non-positive case).
MaxTruncErr == 2
\* Values of fixed_point's func and initial_val are 0..MaxVal.
MaxVal == 2
\* max_iter ranges over 0..MaxIter.
MaxIter == 3
\* Arguments of a transformed function are 0..MaxArg.
MaxArg == 1
\* Values of func and deriv given to a functional are -MaxT..MaxT.
MaxT == 1
\* k of frac ranges over (-2 - KSpan)..(-2 + KSpan).
KSpan == 2

Grid == 0..MaxX
TruncErrs == 0..MaxTruncErr
FVals == {"neg", "negzero", "poszero", "pos"}
Vals == 0..MaxVal
Iters == 0..MaxIter
Args == 0..MaxArg
TVals == (-MaxT)..MaxT

VARIABLES
    pc,          \* position of the running call
    func,        \* the ContinuousFunction passed in
    trunc_err,   \* binary, fixed_point: the tolerance
    result,      \* the value returned by binary or fixed_point
    domain,      \* binary: the (start, end) pair passed in
    start,       \* binary: let mut start
    end,         \* binary: let mut end
    start_val,   \* binary: let mut start_val
    evaluated,   \* binary: the abscissae func was evaluated at
    prev,        \* binary: <<start, end, midpoint>> of the previous iteration
    initial_val, \* fixed_point: the initial guess
    max_iter,    \* fixed_point: the iteration bound
    func_vals,   \* fixed_point: the Vec of iterates
    current_val, \* fixed_point: let mut current_val
    iter,        \* fixed_point: iterations of the for loop completed
    evals,       \* fixed_point: number of applications of func
    deriv,       \* newton_raphson: the derivative passed in
    transform,   \* functional: which functional built the closure
    k,           \* frac: the captured k
    closure,     \* functional: the closure that was boxed
    x,           \* functional: argument of the last call of the closure
    out,         \* functional: value of the last call of the closure
    consulted,   \* functional: functions evaluated by the last call
    divisors     \* functional: every divisor a closure divided by

binaryVars == <<domain, start, end, start_val, evaluated, prev>>
fixedVars == <<initial_val, max_iter, func_vals, current_val, iter, evals>>
transformVars == <<deriv, transform, k, closure, x, out, consulted, divisors>>
vars == <<pc, func, trunc_err, result, binaryVars, fixedVars, transformVars>>

None == <<"None">>
Ok(v) == <<"Ok", v>>
Err(e) == <<"Err", e>>
IsOk(r) == r[1] = "Ok"
IsErr(r) == r[1] = "Err"

NoSignChange == "Error: no sign change at endpoints!"

BinaryIdle ==
    /\ domain = <<0, 0>> /\ start = 0 /\ end = 0 /\ start_val = 0
    /\ evaluated = {} /\ prev = <<>>
FixedIdle ==
    /\ initial_val = 0 /\ max_iter = 0 /\ func_vals = <<>>
    /\ current_val = 0 /\ iter = 0 /\ evals = 0
TransformIdle ==
    /\ deriv = <<>> /\ transform = "none" /\ k = 0 /\ closure = "none"
    /\ x = 0 /\ out = <<0, 1>> /\ consulted = {} /\ divisors = {}

----------------------------------------------------------------------------
(* root_search::binary *)

Signum(v) == IF v \in {"pos", "poszero"} THEN 1 ELSE -1

func_sgn(p) == Signum(func[p])

\* (end + start) / 2.0, rounded to nearest, ties to even.
Midpoint(s, e) ==
    LET sum == e + s
        q == sum \div 2
    IN  IF sum % 2 = 0 THEN q ELSE IF q % 2 = 0 THEN q ELSE q + 1

LoopBreaksOffByOne(test_val, s, e, te) == test_val = 0 \/ (e - s) <= te
LoopBreaks(test_val, s, e, te) == test_val = 0 \/ (e - s) < te

\* <<start, end, start_val>> after an iteration that does not break.
LoopUpdate(s, e, sv, midpoint, test_val) ==
    IF test_val * sv > 0 THEN <<midpoint, e, test_val>> ELSE <<s, midpoint, sv>>

InitBinary ==
    /\ pc = "binary_entry"
    /\ func \in [Grid -> FVals]
    /\ domain \in Grid \X Grid
    /\ trunc_err \in TruncErrs
    /\ start = domain[1]
    /\ end = domain[2]
    /\ start_val = 0
    /\ evaluated = {}
    /\ prev = <<>>
    /\ result = None
    /\ FixedIdle /\ TransformIdle

binary_entry ==
    /\ pc = "binary_entry"
    /\ LET sv == func_sgn(start)
           ev == func_sgn(end)
       IN  /\ start_val' = sv
           /\ evaluated' = {start, end}
           /\ IF sv = 0 THEN
                  /\ result' = Ok(start)
                  /\ pc' = "binary_done"
              ELSE IF ev = 0 THEN
                  /\ result' = Ok(end)
                  /\ pc' = "binary_done"
              ELSE IF sv * ev > 0 THEN
                  /\ result' = Err(NoSignChange)
                  /\ pc' = "binary_done"
              ELSE
                  /\ result' = result
                  /\ pc' = "binary_loop"
    /\ UNCHANGED <<func, trunc_err, domain, start, end, prev>>
    /\ UNCHANGED <<fixedVars, transformVars>>

binary_loop ==
    /\ pc = "binary_loop"
    /\ LET midpoint == Midpoint(start, end)
           test_val == func_sgn(midpoint)
           upd == LoopUpdate(start, end, start_val, midpoint, test_val)
       IN  /\ evaluated' = evaluated \cup {midpoint}
           /\ IF LoopBreaks(test_val, start, end, trunc_err) THEN
                  /\ result' = Ok(midpoint)
                  /\ pc' = "binary_done"
                  /\ UNCHANGED <<start, end, start_val, prev>>
              ELSE
                  /\ start' = upd[1]
                  /\ end' = upd[2]
                  /\ start_val' = upd[3]
                  /\ prev' = <<start, end, midpoint>>
                  /\ UNCHANGED <<result, pc>>
    /\ UNCHANGED <<func, trunc_err, domain>>
    /\ UNCHANGED <<fixedVars, transformVars>>

NextBinary == binary_entry \/ binary_loop

SpecBinary == InitBinary /\ [][NextBinary]_vars

----------------------------------------------------------------------------
(* Properties of root_search::binary *)

\* The sign of a value of func: 0 for -0.0 and +0.0, else -1 or 1.
Sign(v) == IF v \in {"negzero", "poszero"} THEN 0 ELSE Signum(v)
SignAt(p) == Sign(func[p])
Min(a, b) == IF a <= b THEN a ELSE b
Max(a, b) == IF a <= b THEN b ELSE a

OppositeSignsAtEndpoints == SignAt(domain[1]) * SignAt(domain[2]) = -1

BinaryStopRule(r) ==
    /\ r = Midpoint(start, end)
    /\ SignAt(r) = 0 \/ (end - start) < trunc_err

C2_NoSignChangeExactly ==
    pc = "binary_done" =>
        /\ IsErr(result) <=>
              /\ SignAt(domain[1]) # 0
              /\ SignAt(domain[2]) # 0
              /\ SignAt(domain[1]) = SignAt(domain[2])
        /\ IsErr(result) =>
              /\ result[2] = NoSignChange
              /\ evaluated = {domain[1], domain[2]}
              /\ prev = <<>>

\* C3: a zero of func at start makes binary return Ok(start); otherwise a
\* zero of func at end makes it return Ok(end), whatever trunc_err is.
C3_ZeroAtEndpointReturned ==
    pc = "binary_done" =>
        /\ SignAt(domain[1]) = 0 => (IsOk(result) /\ result[2] = domain[1])
        /\ (SignAt(domain[1]) # 0 /\ SignAt(domain[2]) = 0) =>
              (IsOk(result) /\ result[2] = domain[2])

\* C9: with trunc_err > 0 every loop iteration either returns or halves the
\* width end - start (so the width strictly decreases and the loop ends).
C9_EveryIterationHalves ==
    (pc = "binary_loop" /\ trunc_err > 0) =>
        LET midpoint == Midpoint(start, end)
            test_val == func_sgn(midpoint)
            upd == LoopUpdate(start, end, start_val, midpoint, test_val)
        IN  \/ LoopBreaks(test_val, start, end, trunc_err)
            \/ /\ 2 * (upd[2] - upd[1]) <= (end - start) + 1
               /\ (upd[2] - upd[1]) < (end - start)

\* C10: at the start of every loop iteration start_val is the sign of func at
\* start, the sign of func at end is non-zero and opposite to start_val, and
\* the interval is the previous one with exactly one of start and end
\* replaced by the previous midpoint.
C10_BracketInvariant ==
    pc = "binary_loop" =>
        /\ start_val = SignAt(start)
        /\ SignAt(end) # 0
        /\ SignAt(end) = -start_val
        /\ prev # <<>> =>
              /\ Min(prev[1], prev[2]) <= Min(start, end)
              /\ Max(start, end) <= Max(prev[1], prev[2])
              /\ \/ (start = prev[3] /\ end = prev[2])
                 \/ (start = prev[1] /\ end = prev[3])

----------------------------------------------------------------------------
(* root_search::fixed_point *)

\* for _ in 1..max_iter: after `done` iterations the next index is done + 1.
RangeInclusive(done, mi) == done + 1 <= mi
RangeHasNext(done, mi) == done + 1 < mi

Abs(n) == IF n < 0 THEN -n ELSE n

ConvergedNoAbs(next_val, cur, te) == (next_val - cur) < te
Converged(next_val, cur, te) == Abs(next_val - cur) < te

InitFixed ==
    /\ pc = "fixed_point_loop"
    /\ func \in [Vals -> Vals]
    /\ initial_val \in Vals
    /\ trunc_err \in TruncErrs
    /\ max_iter \in Iters
    /\ func_vals = <<>>
    /\ current_val = initial_val
    /\ iter = 0
    /\ evals = 0
    /\ result = None
    /\ BinaryIdle /\ TransformIdle

\* One iteration of the for loop.
fixed_point_iterate ==
    /\ pc = "fixed_point_loop"
    /\ RangeHasNext(iter, max_iter)
    /\ LET next_val == func[current_val]
       IN  /\ func_vals' = Append(func_vals, current_val)
           /\ evals' = evals + 1
           /\ current_val' = next_val
           /\ IF Converged(next_val, current_val, trunc_err) THEN
                  /\ result' = Ok(<<next_val, func_vals'>>)
                  /\ pc' = "fixed_point_done"
                  /\ iter' = iter
              ELSE
                  /\ iter' = iter + 1
                  /\ UNCHANGED <<result, pc>>
    /\ UNCHANGED <<func, trunc_err, initial_val, max_iter>>
    /\ UNCHANGED <<binaryVars, transformVars>>

\* The for loop is over: push the current value and fail.
fixed_point_exhausted ==
    /\ pc = "fixed_point_loop"
    /\ ~RangeHasNext(iter, max_iter)
    /\ func_vals' = Append(func_vals, current_val)
    /\ result' = Err(func_vals')
    /\ pc' = "fixed_point_done"
    /\ UNCHANGED <<func, trunc_err, initial_val, max_iter, current_val, iter, evals>>
    /\ UNCHANGED <<binaryVars, transformVars>>

NextFixed == fixed_point_iterate \/ fixed_point_exhausted

SpecFixed == InitFixed /\ [][NextFixed]_vars

\* The call runs on the calling thread without suspending: a step that can
\* be taken is taken.
FairSpecFixed == SpecFixed /\ WF_vars(NextFixed)

----------------------------------------------------------------------------
(* Properties of root_search::fixed_point *)

RECURSIVE Iterate(_, _)
\* func applied n times to v.
Iterate(v, n) == IF n = 0 THEN v ELSE func[Iterate(v, n - 1)]

IsOrbit(trace) == \A i \in 1..Len(trace) : trace[i] = Iterate(initial_val, i - 1)

AllStepsMiss(trace) ==
    \A i \in 1..(Len(trace) - 1) : Abs(trace[i + 1] - trace[i]) >= trunc_err

\* C4: for max_iter >= 1 a failure carries a trace of exactly max_iter
\* entries, the orbit initial_val, func(initial_val), ..., whose last entry is
\* the final current value.
C4_FailureTrace ==
    (pc = "fixed_point_done" /\ IsErr(result) /\ max_iter >= 1) =>
        /\ Len(result[2]) = max_iter
        /\ IsOrbit(result[2])
        /\ result[2][max_iter] = current_val
        /\ current_val = Iterate(initial_val, max_iter - 1)

C4_Witness ==
    /\ pc = "fixed_point_done" /\ IsErr(result)
    /\ max_iter >= 3 /\ Len(result[2]) = max_iter
    /\ result[2][1] # result[2][2]

\* C5: a success returns (v, trace): trace is the orbit of the values that
\* started an iteration, v = func(last of trace) with |v - last| < trunc_err,
\* v is not pushed on the trace, no earlier consecutive pair of the orbit was
\* closer than trunc_err, and the trace length is in 0..max_iter-1.
C5_SuccessTrace ==
    (pc = "fixed_point_done" /\ IsOk(result)) =>
        LET v == result[2][1]
            trace == result[2][2]
            n == Len(trace)
        IN  /\ n >= 0 /\ n <= max_iter - 1
            /\ trace = func_vals
            /\ IsOrbit(trace)
            /\ n >= 1
            /\ v = func[trace[n]]
            /\ v = Iterate(initial_val, n)
            /\ Abs(v - trace[n]) < trunc_err
            /\ AllStepsMiss(trace)

C5_Witness ==
    /\ pc = "fixed_point_done" /\ IsOk(result)
    /\ Len(result[2][2]) >= 2
    /\ result[2][1] # result[2][2][Len(result[2][2])]

TraceBounds(cap) ==
    /\ evals <= (IF max_iter <= 1 THEN 0 ELSE max_iter - 1)
    /\ Len(func_vals) <= cap

\* C8 as stated: func is evaluated at most max_iter - 1 times (never when
\* max_iter <= 1) and the trace never holds more than max_iter entries.
C8_Original == TraceBounds(max_iter)

\* C8 amended: fixed_point terminates after evaluating func at most
\* max_iter - 1 times (never when max_iter <= 1), and the trace never holds
\* more than max(max_iter, 1) entries.
C8_TerminatesWithinBounds ==
    /\ [](TraceBounds(IF max_iter <= 1 THEN 1 ELSE max_iter))
    /\ <>(pc = "fixed_point_done")

C8_Witness ==
    /\ pc = "fixed_point_done"
    /\ max_iter >= 2 /\ evals = max_iter - 1
    /\ Len(func_vals) = max_iter

----------------------------------------------------------------------------
(* functional.rs *)

\* The 2.0 of `2.0 + *k`, the -2.0 of `*k == -2.0`, the 1.0 both fallbacks
\* return.
FracShift == 2
FracPole == -2
Fallback == 1

KVals == (FracPole - KSpan)..(FracPole + KSpan)

RECURSIVE GCD(_, _)
GCD(a, b) == IF b = 0 THEN a ELSE GCD(b, a % b)

\* An f64 value n/d as the pair <<n, d>> in lowest terms with d > 0.
\* a / 0.0 is <<1, 0>> (inf), <<-1, 0>> (-inf) or <<0, 0>> (NaN).
Div(a, b) ==
    IF b = 0 THEN <<(IF a > 0 THEN 1 ELSE IF a < 0 THEN -1 ELSE 0), 0>>
    ELSE LET g == GCD(Abs(a), Abs(b))
             sg == IF b < 0 THEN -1 ELSE 1
         IN  <<(sg * a) \div g, Abs(b) \div g>>

Num(n) == <<n, 1>>

FracDegenerateSignSlip(kk) == kk = -FracPole
\* *k == -2.0
FracDegenerate(kk) == kk = FracPole

\* deriv(x) == 0.0
DerivVanishes(d) == d = 0

InitTransform ==
    /\ pc = "functional_new"
    /\ func \in [Args -> TVals]
    /\ deriv \in [Args -> TVals]
    /\ transform = "none" /\ k = 0 /\ closure = "none"
    /\ x = 0 /\ out = <<0, 1>> /\ consulted = {} /\ divisors = {}
    /\ trunc_err = 0
    /\ result = None
    /\ BinaryIdle /\ FixedIdle

BuildFrame ==
    /\ UNCHANGED <<func, deriv, trunc_err, result, x, out, consulted, divisors>>
    /\ UNCHANGED <<binaryVars, fixedVars>>

x_minus ==
    /\ pc = "functional_new"
    /\ pc' = "functional_built"
    /\ transform' = "x_minus"
    /\ closure' = "x_minus_func"
    /\ k' = k
    /\ BuildFrame

identity ==
    /\ pc = "functional_new"
    /\ pc' = "functional_built"
    /\ transform' = "identity"
    /\ closure' = "func"
    /\ k' = k
    /\ BuildFrame

frac ==
    /\ pc = "functional_new"
    /\ pc' = "functional_built"
    /\ transform' = "frac"
    /\ \E kk \in KVals :
        /\ k' = kk
        /\ closure' = IF FracDegenerate(kk) THEN "constant" ELSE "quotient"
    /\ BuildFrame

newton_raphson ==
    /\ pc = "functional_new"
    /\ pc' = "functional_built"
    /\ transform' = "newton_raphson"
    /\ closure' = "func_over_deriv"
    /\ k' = k
    /\ BuildFrame

\* A call of the boxed closure at xx.
closure_call ==
    /\ pc \in {"functional_built", "functional_called"}
    /\ pc' = "functional_called"
    /\ \E xx \in Args :
        /\ x' = xx
        /\ CASE closure = "x_minus_func" ->
                  /\ out' = Num(xx - func[xx])
                  /\ consulted' = {"func"}
                  /\ divisors' = divisors
             [] closure = "func" ->
                  /\ out' = Num(func[xx])
                  /\ consulted' = {"func"}
                  /\ divisors' = divisors
             [] closure = "constant" ->
                  /\ out' = Num(Fallback)
                  /\ consulted' = {}
                  /\ divisors' = divisors
             [] closure = "quotient" ->
                  /\ out' = Div(func[xx], FracShift + k)
                  /\ consulted' = {"func"}
                  /\ divisors' = divisors \cup {FracShift + k}
             [] closure = "func_over_deriv" ->
                  IF DerivVanishes(deriv[xx]) THEN
                      /\ out' = Num(Fallback)
                      /\ consulted' = {"deriv"}
                      /\ divisors' = divisors
                  ELSE
                      /\ out' = Div(func[xx], deriv[xx])
                      /\ consulted' = {"deriv", "func"}
                      /\ divisors' = divisors \cup {deriv[xx]}
    /\ UNCHANGED <<func, deriv, trunc_err, result, transform, k, closure>>
    /\ UNCHANGED <<binaryVars, fixedVars>>

NextTransform == x_minus \/ identity \/ frac \/ newton_raphson \/ closure_call

SpecTransform == InitTransform /\ [][NextTransform]_vars

----------------------------------------------------------------------------
(* Properties of the functionals *)

\* out is the quotient n / d, with d # 0.
IsQuotient(n, d) == d # 0 /\ out[2] # 0 /\ out[1] * d = n * out[2]

\* C7: no closure divides by zero; frac with k = -2 is the constant 1 and
\* does not consult func, with any other k it is func(x) / (2 + k);
\* newton_raphson is 1 where deriv(x) = 0 and func(x) / deriv(x) elsewhere,
\* deriv being tested by each call and nothing being evaluated when the
\* closure is built.
C7_NoDivisionByZero ==
    /\ 0 \notin divisors
    /\ pc = "functional_built" => (consulted = {} /\ divisors = {})
    /\ (pc = "functional_called" /\ transform = "frac") =>
          IF k = -2 THEN out = <<1, 1>> /\ consulted = {}
          ELSE IsQuotient(func[x], 2 + k)
    /\ (pc = "functional_called" /\ transform = "newton_raphson") =>
          /\ "deriv" \in consulted
          /\ IF deriv[x] = 0 THEN out = <<1, 1>>
             ELSE IsQuotient(func[x], deriv[x])

C7_Witness ==
    /\ pc = "functional_called"
    /\ \/ transform = "frac" /\ k = -2 /\ func[x] # 1 /\ out = <<1, 1>>
       \/ transform = "newton_raphson" /\ deriv[x] = 0 /\ func[x] # 0
            /\ out = <<1, 1>> /\ \E y \in Args : deriv[y] # 0

----------------------------------------------------------------------------

Init == InitBinary \/ InitFixed \/ InitTransform

Next == NextBinary \/ NextFixed \/ NextTransform

Spec == Init /\ [][Next]_vars

====
